---- MODULE Spec2Model ----
(***************************************************************************)
(* Model of standup.py, the daily standup report generator: the date       *)
(* window resolver, the GitHub commit scan, the issue classification and   *)
(* commit/issue merge of main, and the two report renderers.               *)
(*                                                                         *)
(* Text is modelled as sequences of one-character strings, so that the     *)
(* regular expressions of the program (TICKET_RE, MERGE_RE, COMMIT_RE and  *)
(* the prefix pattern of title_from_commits) are computed character by     *)
(* character.  Dates are proleptic Gregorian ordinals (date.toordinal()).  *)
(***************************************************************************)
EXTENDS Integers, Sequences, FiniteSets, TLC

VARIABLES
    pc,                \* position of the run
    today,             \* date.today()
    arg_date,          \* args.date: <<>> (None) or <<d>>
    workday,           \* main's workday
    date_from,         \* main's date_from
    date_to,           \* main's date_to
    issues,            \* the assigned issues iterated so far (history of the loop)
    done_issues,       \* list of (identifier, title, url)
    review_issues,
    blocked_issues,
    backlog_issues,
    plane_active,      \* dict identifier -> [title, url]
    all_issues_lookup, \* dict identifier -> [title, url]
    by_ticket,         \* get_github_commits: dict ticket -> set of commit lines
    orphans,           \* get_github_commits: set of commit lines
    processed,         \* the commits handed to process() so far (history)
    commits_by_ticket, \* main: dict ticket -> sorted list of commit lines
    orphan_commits,    \* main: sorted list of commit lines
    worked_on,         \* dict ticket -> [title, url, commits]
    done_commits,      \* dict ticket -> list of commit lines
    show_commits,      \* set of groups whose commits are shown
    add_links,         \* args.add_links
    report,            \* build_report: the list `lines`
    slack_text,        \* build_slack_report: the list `lines`
    server,            \* the tracker's response to each page of the work-item listing
    member_id,         \* get_my_issues: member_id
    page,              \* get_my_issues: page
    all_issues,        \* get_my_issues: all_issues
    requested,         \* the pages requested so far (history)
    returned,          \* get_my_issues: <<>> or <<the returned list>>
    env,               \* the environment of a run: arguments, variables, outcomes
    calls,             \* the network calls made so far (history)
    out,               \* what the run has printed, copied and sent (history)
    exit_code,         \* <<>> while running, <<code>> once the process has exited
    todo               \* main: the projects still to iterate

windowVars == <<today, arg_date, workday, date_from, date_to>>
issueVars == <<issues, done_issues, review_issues, blocked_issues, backlog_issues,
               plane_active, all_issues_lookup>>
scanVars == <<by_ticket, orphans, processed>>
mergeVars == <<commits_by_ticket, orphan_commits, worked_on, done_commits>>
renderVars == <<show_commits, add_links, report, slack_text>>
pageVars == <<server, member_id, page, all_issues, requested, returned>>
runVars == <<env, calls, out, exit_code, todo>>
vars == <<pc, windowVars, issueVars, scanVars, mergeVars, renderVars, pageVars, runVars>>

(***************************************************************************)
(* Characters and strings                                                  *)
(***************************************************************************)

\* The backquote character (code point 96), which a TLA+ string cannot hold.
Backtick == "bq"

\* The printable ASCII characters in code-point order, from " " (32) to "~" (126).
Ascii ==
    <<" ", "!", "\"", "#", "$", "%", "&", "'", "(", ")", "*", "+", ",", "-", ".", "/",
      "0", "1", "2", "3", "4", "5", "6", "7", "8", "9", ":", ";", "<", "=", ">", "?",
      "@", "A", "B", "C", "D", "E", "F", "G", "H", "I", "J", "K", "L", "M", "N", "O",
      "P", "Q", "R", "S", "T", "U", "V", "W", "X", "Y", "Z", "[", "\\", "]", "^", "_",
      Backtick, "a", "b", "c", "d", "e", "f", "g", "h", "i", "j", "k", "l", "m", "n", "o",
      "p", "q", "r", "s", "t", "u", "v", "w", "x", "y", "z", "{", "|", "}", "~">>

Chars == {Ascii[i] : i \in 1..Len(Ascii)}

\* Position of a character in code-point order (Python compares str by code point).
Ord == [c \in Chars |-> CHOOSE i \in 1..Len(Ascii) : Ascii[i] = c]

Digits == {"0", "1", "2", "3", "4", "5", "6", "7", "8", "9"}
HexDigits == Digits \cup {"a", "b", "c", "d", "e", "f"}
LowerLetters == {c \in Chars : Ord[c] >= Ord["a"] /\ Ord[c] <= Ord["z"]}
UpperLetters == {c \in Chars : Ord[c] >= Ord["A"] /\ Ord[c] <= Ord["Z"]}
WordChars == LowerLetters \cup UpperLetters \cup Digits \cup {"_"}
Whitespace == {" "}

\* str.upper() on one character, and on a string.
UpperChar(c) == IF c \in LowerLetters THEN Ascii[Ord[c] - (Ord["a"] - Ord["A"])] ELSE c
Upper(s) == [i \in 1..Len(s) |-> UpperChar(s[i])]

\* Equality of two characters under re.IGNORECASE.
EqIC(a, b) == UpperChar(a) = UpperChar(b)

\* Does `lit` occur in s at position i (1-based), ignoring case?
MatchesAtIC(s, i, lit) ==
    /\ i + Len(lit) - 1 <= Len(s)
    /\ \A k \in 1..Len(lit) : EqIC(s[i + k - 1], lit[k])

\* Does `lit` occur in s at position i, exactly?
MatchesAt(s, i, lit) ==
    /\ i + Len(lit) - 1 <= Len(s)
    /\ \A k \in 1..Len(lit) : s[i + k - 1] = lit[k]

\* s[i:] in Python terms, for a 1-based i.
From(s, i) == SubSeq(s, i, Len(s))

\* Python's < on str: lexicographic by code point.
RECURSIVE StrLess(_, _)
StrLess(a, b) ==
    IF b = <<>> THEN FALSE
    ELSE IF a = <<>> THEN TRUE
    ELSE IF a[1] = b[1] THEN StrLess(Tail(a), Tail(b))
    ELSE Ord[a[1]] < Ord[b[1]]

\* sorted() of a set of strings.
RECURSIVE SortedStrs(_)
SortedStrs(S) ==
    IF S = {} THEN <<>>
    ELSE LET m == CHOOSE x \in S : \A y \in S \ {x} : StrLess(x, y)
         IN  <<m>> \o SortedStrs(S \ {m})

\* str.strip() and str.lstrip(chars).
RECURSIVE LStrip(_, _)
LStrip(s, cs) ==
    IF s # <<>> /\ s[1] \in cs THEN LStrip(Tail(s), cs) ELSE s

RECURSIVE RStrip(_, _)
RStrip(s, cs) ==
    IF s # <<>> /\ s[Len(s)] \in cs THEN RStrip(SubSeq(s, 1, Len(s) - 1), cs) ELSE s

Strip(s) == RStrip(LStrip(s, Whitespace), Whitespace)

Range(f) == {f[x] : x \in DOMAIN f}

(***************************************************************************)
(* Working day helpers (standup.py 163-184)                                *)
(***************************************************************************)

\* date.weekday() of an ordinal: Monday = 0 (ordinal 1 is Monday 0001-01-01).
Weekday(d) == (d + 6) % 7

prev_workday_no_monday(ref) == ref - 1

prev_workday(ref) ==
    LET delta == IF Weekday(ref) = 0 THEN 3 ELSE 1
    IN  ref - delta

workday_range(wd, td) ==
    IF Weekday(td) = 0
    THEN <<wd, td - 1>>
    ELSE <<wd, wd>>

\* The first day of the modelled calendar: Monday 2024-01-01.
FirstDay == 738886
\* How many days after FirstDay `today` and --date range over.
SpanDays == 7

Days == FirstDay..(FirstDay + SpanDays)

\* main, lines 553-555: resolve workday and the window.
ResolveWindow ==
    /\ pc = "start"
    /\ LET wd == IF arg_date # <<>> THEN arg_date[1] ELSE prev_workday(today)
           r  == workday_range(wd, IF arg_date = <<>> THEN today ELSE wd)
       IN  /\ workday' = wd
           /\ date_from' = r[1]
           /\ date_to' = r[2]
    /\ pc' = "window"
    /\ UNCHANGED <<today, arg_date, issueVars, scanVars, mergeVars, renderVars,
                   pageVars, runVars>>

(***************************************************************************)
(* GitHub helpers (standup.py 205-260)                                     *)
(***************************************************************************)

IsWordAt(s, i) == i >= 1 /\ i <= Len(s) /\ s[i] \in WordChars

\* \b just before position i: exactly one of s[i-1], s[i] is a word character.
Boundary(s, i) == IsWordAt(s, i - 1) # IsWordAt(s, i)

\* Length of the run of digits of s that starts at position i.
RECURSIVE DigitRun(_, _)
DigitRun(s, i) ==
    IF i <= Len(s) /\ s[i] \in Digits THEN 1 + DigitRun(s, i + 1) ELSE 0

TicketPrefix == <<"D", "A", "T", "A", "-">>

\* TICKET_RE = \b(DATA-\d+)\b, IGNORECASE, tried at position i: the position
\* after the match, or 0.  \d+ is greedy and a shorter run ends between two
\* digits, where there is no \b, so only the whole run can match.
TicketMatchEnd(s, i) ==
    LET n == DigitRun(s, i + Len(TicketPrefix))
        e == i + Len(TicketPrefix) + n
    IN  IF /\ Boundary(s, i)
           /\ MatchesAtIC(s, i, TicketPrefix)
           /\ n >= 1
           /\ Boundary(s, e)
        THEN e ELSE 0

\* TICKET_RE.findall(s), scanning from position i.
RECURSIVE TicketFindFrom(_, _)
TicketFindFrom(s, i) ==
    IF i > Len(s) THEN <<>>
    ELSE LET e == TicketMatchEnd(s, i)
         IN  IF e > 0
             THEN <<SubSeq(s, i, e - 1)>> \o TicketFindFrom(s, e)
             ELSE TicketFindFrom(s, i + 1)

TICKET_RE_findall(s) == TicketFindFrom(s, 1)

MergeWord == <<"M", "e", "r", "g", "e", " ">>

MERGE_RE_case_sensitive(msg) == MatchesAt(msg, 1, MergeWord)

\* MERGE_RE = ^Merge , IGNORECASE: MERGE_RE.match(msg) is not None.
MERGE_RE_match(msg) == MatchesAtIC(msg, 1, MergeWord)

\* commit.sha[:7]
ShortShaLen == 7
ShortSha(sha) == SubSeq(sha, 1, IF Len(sha) < ShortShaLen THEN Len(sha) ELSE ShortShaLen)

\* f"`{commit.sha[:7]}` {msg} ({commit.html_url})"
CommitLine(sha, msg, url) ==
    <<Backtick>> \o ShortSha(sha) \o <<Backtick, " ">> \o msg \o <<" ", "(">> \o url \o <<")">>

\* by_ticket.setdefault(t.upper(), set()).add(short), for each t of tickets.
AddUnderTickets(bt, tickets, short) ==
    LET keys == {Upper(t) : t \in Range(tickets)}
    IN  [t \in DOMAIN bt \cup keys |->
            (IF t \in DOMAIN bt THEN bt[t] ELSE {})
                \cup (IF t \in keys THEN {short} ELSE {})]

process_merge_case_sensitive(bt, orph, commit) ==
    LET msg     == commit.message[1]
        short   == CommitLine(commit.sha, msg, commit.html_url)
        tickets == TICKET_RE_findall(msg)
    IN  IF MERGE_RE_case_sensitive(msg) THEN [by_ticket |-> bt, orphans |-> orph]
        ELSE IF tickets = <<>> THEN [by_ticket |-> bt, orphans |-> orph \cup {short}]
        ELSE [by_ticket |-> AddUnderTickets(bt, tickets, short), orphans |-> orph]

\* process(commit) of get_github_commits, for a commit whose message has a
\* first line; commit.message is the list message.splitlines().
process(bt, orph, commit) ==
    LET msg     == commit.message[1]
        short   == CommitLine(commit.sha, msg, commit.html_url)
        tickets == TICKET_RE_findall(msg)
    IN  IF MERGE_RE_match(msg) THEN [by_ticket |-> bt, orphans |-> orph]
        ELSE IF tickets = <<>> THEN [by_ticket |-> bt, orphans |-> orph \cup {short}]
        ELSE [by_ticket |-> AddUnderTickets(bt, tickets, short), orphans |-> orph]

\* splitlines()[0] raises IndexError when the message is empty.
ProcessRaises(commit) == commit.message = <<>>

\* The loop over one repository's commits: an exception raised by process
\* leaves the loop (except Exception: pass), dropping the rest of the repository.
RECURSIVE ScanRepo(_, _)
ScanRepo(st, commits) ==
    IF commits = <<>> \/ ProcessRaises(commits[1]) THEN st
    ELSE ScanRepo(process(st.by_ticket, st.orphans, commits[1]), Tail(commits))

RECURSIVE ScanRepos(_, _)
ScanRepos(st, repos) ==
    IF repos = <<>> THEN st
    ELSE ScanRepos(ScanRepo(st, repos[1]), Tail(repos))

\* The returned pair: ({t: sorted(msgs) for t, msgs in sorted(by_ticket.items())},
\* sorted(orphans)).  A dict is a function; its key order is SortedStrs(DOMAIN).
ScanResult(st) ==
    [by_ticket |-> [t \in DOMAIN st.by_ticket |-> SortedStrs(st.by_ticket[t])],
     orphans   |-> SortedStrs(st.orphans)]

EmptyDict == [t \in {} |-> {}]
EmptyScan == [by_ticket |-> EmptyDict, orphans |-> {}]

\* get_github_commits: without GITHUB_TOKEN the result is ({}, []).
get_github_commits(has_token, repos) ==
    IF ~has_token THEN [by_ticket |-> EmptyDict, orphans |-> <<>>]
    ELSE ScanResult(ScanRepos(EmptyScan, repos))

(***************************************************************************)
(* Plane helpers (standup.py 127-156) and COMMIT_RE (207)                  *)
(***************************************************************************)

PLANE_WORKSPACE_SLUG == "my-workspace"

\* Decimal digits of a sequence number below 100.
DigitsOf(n) ==
    IF n < 10 THEN <<Ascii[Ord["0"] + n]>>
    ELSE <<Ascii[Ord["0"] + (n \div 10)], Ascii[Ord["0"] + (n % 10)]>>

\* f"{identifier}-{seq}"
get_issue_identifier(project, issue) ==
    project.identifier \o <<"-">> \o DigitsOf(issue.sequence_id)

\* URLs are kept as the list of the pieces the f-string joins.
build_issue_url(project_id, issue_id) ==
    <<"https://app.plane.so/", PLANE_WORKSPACE_SLUG, "/projects/", project_id,
      "/issues/", issue_id>>

build_browse_url(ticket) ==
    <<"https://app.plane.so/", PLANE_WORKSPACE_SLUG, "/browse/">> \o ticket \o <<"/">>

\* Length of the run of characters of cs in s that starts at position i.
RECURSIVE RunOf(_, _, _)
RunOf(s, i, cs) ==
    IF i <= Len(s) /\ s[i] \in cs THEN 1 + RunOf(s, i + 1, cs) ELSE 0

HttpsScheme == <<"h", "t", "t", "p", "s", ":", "/", "/">>
HttpScheme == <<"h", "t", "t", "p", ":", "/", "/">>

\* Is line[u..Len-1] a match of https?://\S+ and line[Len] the closing ")"?
UrlTail(line, u) ==
    LET n == IF MatchesAt(line, u, HttpsScheme) THEN Len(HttpsScheme)
             ELSE IF MatchesAt(line, u, HttpScheme) THEN Len(HttpScheme)
             ELSE 0
    IN  /\ n > 0
        /\ u + n <= Len(line) - 1
        /\ \A k \in (u + n)..(Len(line) - 1) : line[k] \notin Whitespace
        /\ line[Len(line)] = ")"

\* COMMIT_RE = ^(`[0-9a-f]+`) (.+) \((https?://\S+)\)$ : <<>> when the line does
\* not match, else <<[sha, msg, url]>> with group(1) (backquotes kept), group(2)
\* and group(3).  .+ is greedy: the longest message for which the rest matches.
COMMIT_RE_match(line) ==
    LET n  == RunOf(line, 2, HexDigits)
        p  == n + 4   \* first character of group 2
        ok == /\ Len(line) >= p
              /\ line[1] = Backtick
              /\ n >= 1
              /\ line[n + 2] = Backtick
              /\ line[n + 3] = " "
        ends == {q \in p..Len(line) :
                    /\ q + 3 <= Len(line)
                    /\ line[q + 1] = " "
                    /\ line[q + 2] = "("
                    /\ UrlTail(line, q + 3)}
    IN  IF ok /\ ends # {}
        THEN LET q == CHOOSE x \in ends : \A y \in ends : y <= x
             IN  <<[sha |-> SubSeq(line, 1, n + 2),
                    msg |-> SubSeq(line, p, q),
                    url |-> SubSeq(line, q + 3, Len(line) - 1)]>>
        ELSE <<>>

\* The separators [-:] of the prefix pattern; the en dash and the em dash of
\* the pattern lie outside the ASCII alphabet of the model.
PrefixSeparators == {"-", ":"}

\* prefix_re.sub("", msg) for prefix_re = ^\s*{ticket}\s*[-:]\s*, IGNORECASE.
StripTicketPrefix(ticket, msg) ==
    LET i == 1 + RunOf(msg, 1, Whitespace)
        j == i + Len(ticket)
        k == j + RunOf(msg, j, Whitespace)
    IN  IF /\ MatchesAtIC(msg, i, ticket)
           /\ k <= Len(msg)
           /\ msg[k] \in PrefixSeparators
        THEN From(msg, k + 1 + RunOf(msg, k + 1, Whitespace))
        ELSE msg

RECURSIVE title_from_commits(_, _)
title_from_commits(ticket, commit_lines) ==
    IF commit_lines = <<>> THEN <<>>
    ELSE LET line    == commit_lines[1]
             m       == COMMIT_RE_match(line)
             msg     == IF m # <<>> THEN m[1].msg ELSE line
             cleaned == Strip(StripTicketPrefix(ticket, msg))
         IN  IF cleaned # <<>> THEN cleaned
             ELSE title_from_commits(ticket, Tail(commit_lines))

(***************************************************************************)
(* main: classification of the assigned issues (standup.py 573-623)        *)
(***************************************************************************)

LowerChar(c) == IF c \in UpperLetters THEN Ascii[Ord[c] + (Ord["a"] - Ord["A"])] ELSE c
Lower(s) == [i \in 1..Len(s) |-> LowerChar(s[i])]

\* Python's `sub in s` on strings.
Contains(s, sub) == \E i \in 1..(Len(s) + 1) : MatchesAt(s, i, sub)

ReviewWord == <<"r", "e", "v", "i", "e", "w">>
BlockedWord == <<"b", "l", "o", "c", "k", "e", "d">>

\* Python dict assignment d[k] = v.
Put(d, k, v) == [x \in DOMAIN d \cup {k} |-> IF x = k THEN v ELSE d[x]]
\* The dict d without key k.
Without(d, k) == [x \in DOMAIN d \ {k} |-> d[x]]

\* date_from.isoformat() <= updated_date <= date_to.isoformat(): ISO dates
\* compare as the dates do, and the empty string (no updated_at) is below all.
updated_in_range(updated_date, from, to) ==
    /\ updated_date # <<>>
    /\ from <= updated_date[1]
    /\ updated_date[1] <= to

classify_ignoring_dates(issue, in_range) ==
    LET state_group == issue.state.group
        state_name  == Lower(issue.state.name)
        is_blocked  == BlockedWord \in {Lower(issue.label_details[i]) :
                                           i \in 1..Len(issue.label_details)}
    IN  IF state_group \in {"backlog", "unstarted"} THEN "backlog"
        ELSE IF state_group = "completed" THEN "done"
        ELSE IF Contains(state_name, ReviewWord) THEN "review"
        ELSE IF is_blocked THEN "blocked"
        ELSE IF state_group = "started" THEN "active"
        ELSE "none"

\* Lines 602-623: the bucket an issue is appended to ("none": no bucket).
classify(issue, in_range) ==
    LET state_group == issue.state.group
        state_name  == Lower(issue.state.name)
        is_blocked  == BlockedWord \in {Lower(issue.label_details[i]) :
                                           i \in 1..Len(issue.label_details)}
    IN  IF state_group \in {"backlog", "unstarted"} THEN "backlog"
        ELSE IF ~in_range THEN "none"
        ELSE IF state_group = "completed" THEN "done"
        ELSE IF Contains(state_name, ReviewWord) THEN "review"
        ELSE IF is_blocked THEN "blocked"
        ELSE IF state_group = "started" THEN "active"
        ELSE "none"

\* How many assigned issues the tracker returns at most.
MaxIssues == 1

Project == [id |-> "p1", identifier |-> <<"D", "A", "T", "A">>]

Groups == {"backlog", "unstarted", "started", "completed", "cancelled"}
StateNames == {<<"I", "n", " ", "R", "e", "v", "i", "e", "w">>, <<"D", "o", "i", "n", "g">>}
States == [group : Groups, name : StateNames]
LabelLists == {<<>>, <<<<"B", "l", "o", "c", "k", "e", "d">>>>}

IssueIds == <<"uuid-1", "uuid-2", "uuid-3", "uuid-4">>

\* The issues the tracker may return as the k-th assigned issue, given the window.
IssueChoices(k, from, to) ==
    [id            : {IssueIds[k]},
     sequence_id   : {k},
     name          : {<<"T">> \o DigitsOf(k)},
     state         : States,
     updated_date  : {<<>>} \cup {<<d>> : d \in {from - 1, from, to, to + 1}},
     label_details : LabelLists]

\* One iteration of `for issue in issues` (lines 591-623).
ClassifyIssue ==
    /\ pc = "window"
    /\ Len(issues) < MaxIssues
    /\ \E issue \in IssueChoices(Len(issues) + 1, date_from, date_to) :
        LET title      == issue.name
            identifier == get_issue_identifier(Project, issue)
            url        == build_issue_url(Project.id, issue.id)
            entry      == <<identifier, title, url>>
            bucket     == classify(issue,
                              updated_in_range(issue.updated_date, date_from, date_to))
        IN  /\ issues' = Append(issues, issue)
            /\ all_issues_lookup' =
                   Put(all_issues_lookup, identifier, [title |-> title, url |-> url])
            /\ backlog_issues' = IF bucket = "backlog"
                                 THEN Append(backlog_issues, entry) ELSE backlog_issues
            /\ done_issues' = IF bucket = "done"
                              THEN Append(done_issues, entry) ELSE done_issues
            /\ review_issues' = IF bucket = "review"
                                THEN Append(review_issues, entry) ELSE review_issues
            /\ blocked_issues' = IF bucket = "blocked"
                                 THEN Append(blocked_issues, entry) ELSE blocked_issues
            /\ plane_active' = IF bucket = "active"
                               THEN Put(plane_active, identifier,
                                        [title |-> title, url |-> url])
                               ELSE plane_active
    /\ UNCHANGED <<pc, windowVars, scanVars, mergeVars, renderVars, pageVars, runVars>>

(***************************************************************************)
(* The commits the repository scan may return.  A commit is                *)
(* [sha, message, html_url]; message is the list message.splitlines().     *)
(***************************************************************************)

CommitTitleEmpty ==
    [sha |-> <<"0", "a", "0", "a", "0", "a", "0", "a">>,
     message |-> <<<<"d", "a", "t", "a", "-", "9", "9", ":">>>>,
     html_url |-> <<"h", "t", "t", "p", "s", ":", "/", "/", "g", "/", "1">>]

CommitLowerTicket ==
    [sha |-> <<"1", "b", "1", "b", "1", "b", "1", "b">>,
     message |-> <<<<"d", "a", "t", "a", "-", "9", "9", " ", "-", " ", "a", "d", "d">>>>,
     html_url |-> <<"h", "t", "t", "p", "s", ":", "/", "/", "g", "/", "2">>]

CommitIssueTicket ==
    [sha |-> <<"2", "c", "2", "c", "2", "c", "2", "c">>,
     message |-> <<<<"D", "A", "T", "A", "-", "1", " ", "-", " ", "f", "i", "x">>>>,
     html_url |-> <<"h", "t", "t", "p", "s", ":", "/", "/", "g", "/", "3">>]

CommitNoTicket ==
    [sha |-> <<"3", "d", "3", "d", "3", "d", "3", "d">>,
     message |-> <<<<"t", "i", "d", "y">>>>,
     html_url |-> <<"h", "t", "t", "p", "s", ":", "/", "/", "g", "/", "4">>]

CommitMerge ==
    [sha |-> <<"4", "e", "4", "e", "4", "e", "4", "e">>,
     message |-> <<<<"M", "e", "r", "g", "e", " ", "D", "A", "T", "A", "-", "1">>>>,
     html_url |-> <<"h", "t", "t", "p", "s", ":", "/", "/", "g", "/", "5">>]

CommitMergeLower ==
    [sha |-> <<"5", "f", "5", "f", "5", "f", "5", "f">>,
     message |-> <<<<"m", "e", "r", "g", "e", " ", "x">>>>,
     html_url |-> <<"h", "t", "t", "p", "s", ":", "/", "/", "g", "/", "6">>]

CommitTwoTickets ==
    [sha |-> <<"6", "a", "6", "a", "6", "a", "6", "a">>,
     message |-> <<<<"D", "A", "T", "A", "-", "1", " ", "d", "a", "t", "a", "-", "2", " ", "x">>>>,
     html_url |-> <<"h", "t", "t", "p", "s", ":", "/", "/", "g", "/", "7">>]

CommitNoLeftBoundary ==
    [sha |-> <<"7", "b", "7", "b", "7", "b", "7", "b">>,
     message |-> <<<<"X", "D", "A", "T", "A", "-", "1">>>>,
     html_url |-> <<"h", "t", "t", "p", "s", ":", "/", "/", "g", "/", "8">>]

CommitNoRightBoundary ==
    [sha |-> <<"8", "c", "8", "c", "8", "c", "8", "c">>,
     message |-> <<<<"D", "A", "T", "A", "-", "1", "a">>>>,
     html_url |-> <<"h", "t", "t", "p", "s", ":", "/", "/", "g", "/", "9">>]

CommitEmptyFirstLine ==
    [sha |-> <<"9", "d", "9", "d", "9", "d", "9", "d">>,
     message |-> <<<<>>>>,
     html_url |-> <<"h", "t", "t", "p", "s", ":", "/", "/", "g", "/", "a">>]

CommitEmptyMessage ==
    [sha |-> <<"a", "0", "a", "0", "a", "0", "a", "0">>,
     message |-> <<>>,
     html_url |-> <<"h", "t", "t", "p", "s", ":", "/", "/", "g", "/", "b">>]

CommitMergedWord ==
    [sha |-> <<"b", "1", "b", "1", "b", "1", "b", "1">>,
     message |-> <<<<"M", "e", "r", "g", "e", "d", " ", "D", "A", "T", "A", "-", "3">>, <<"b", "o", "d", "y", " ", "D", "A", "T", "A", "-", "4">>>>,
     html_url |-> <<"h", "t", "t", "p", "s", ":", "/", "/", "g", "/", "c">>]

MainCommits == {CommitTitleEmpty, CommitLowerTicket, CommitIssueTicket, CommitNoTicket}

ScanCommits == MainCommits \cup
    {CommitMerge,
     CommitMergeLower,
     CommitTwoTickets,
     CommitNoLeftBoundary,
     CommitNoRightBoundary,
     CommitEmptyFirstLine,
     CommitEmptyMessage,
     CommitMergedWord}

(***************************************************************************)
(* main: commit fetch and merge step (standup.py 625-645)                  *)
(***************************************************************************)

\* The repository lists (one commit list per repository) that main's scan may
\* meet: no commit; a commit for an issue's identifier; two commits for a ticket
\* no issue has; one whose message is the bare ticket prefix; a mix with a
\* commit that names no ticket, spread over two repositories.
MainRepos ==
    {<<>>,
     <<<<CommitIssueTicket>>>>,
     <<<<CommitTitleEmpty, CommitLowerTicket>>>>,
     <<<<CommitTitleEmpty>>>>,
     <<<<CommitIssueTicket, CommitNoTicket>>, <<CommitLowerTicket>>>>}

\* Line 627.
FetchCommits ==
    /\ pc = "window"
    /\ \E has_token \in BOOLEAN :
       \E repos \in MainRepos :
        LET r == get_github_commits(has_token, repos)
        IN  /\ commits_by_ticket' = r.by_ticket
            /\ orphan_commits' = r.orphans
    /\ pc' = "fetched"
    /\ UNCHANGED <<windowVars, issueVars, scanVars, worked_on, done_commits,
                   renderVars, pageVars, runVars>>

\* Line 630.
DoneIds(done, review) == {e[1] : e \in Range(done) \cup Range(review)}

ticket_info_no_lookup(ticket, commit_lines, active, lookup) ==
    IF ticket \in DOMAIN active THEN active[ticket]
    ELSE [title |-> title_from_commits(ticket, commit_lines),
          url   |-> build_browse_url(ticket)]

\* Lines 637-640: plane_active.pop(ticket, None) or all_issues_lookup.get(ticket)
\* or the synthesized record (a stored record is a non-empty dict, so truthy).
ticket_info(ticket, commit_lines, active, lookup) ==
    IF ticket \in DOMAIN active THEN active[ticket]
    ELSE IF ticket \in DOMAIN lookup THEN lookup[ticket]
    ELSE [title |-> title_from_commits(ticket, commit_lines),
          url   |-> build_browse_url(ticket)]

merge_ticket_known_only(st, ticket, commit_lines, done_ids, lookup) ==
    IF ticket \in done_ids
    THEN [st EXCEPT !.done_commits = Put(@, ticket, commit_lines)]
    ELSE IF ticket \notin DOMAIN st.plane_active \cup DOMAIN lookup THEN st
    ELSE LET info == ticket_info(ticket, commit_lines, st.plane_active, lookup)
         IN  [st EXCEPT !.worked_on = Put(@, ticket,
                            [title |-> info.title, url |-> info.url,
                             commits |-> commit_lines]),
                        !.plane_active = Without(@, ticket)]

merge_ticket_without_pop(st, ticket, commit_lines, done_ids, lookup) ==
    IF ticket \in done_ids
    THEN [st EXCEPT !.done_commits = Put(@, ticket, commit_lines)]
    ELSE LET info == ticket_info(ticket, commit_lines, st.plane_active, lookup)
         IN  [st EXCEPT !.worked_on = Put(@, ticket,
                            [title |-> info.title, url |-> info.url,
                             commits |-> commit_lines])]

\* One iteration of the loop of lines 633-641 on
\* st = [worked_on, done_commits, plane_active].
merge_ticket(st, ticket, commit_lines, done_ids, lookup) ==
    IF ticket \in done_ids
    THEN [st EXCEPT !.done_commits = Put(@, ticket, commit_lines)]
    ELSE LET info == ticket_info(ticket, commit_lines, st.plane_active, lookup)
         IN  [st EXCEPT !.worked_on = Put(@, ticket,
                            [title |-> info.title, url |-> info.url,
                             commits |-> commit_lines]),
                        !.plane_active = Without(@, ticket)]

RECURSIVE MergeLoop(_, _, _, _, _)
MergeLoop(st, tickets, cbt, done_ids, lookup) ==
    IF tickets = <<>> THEN st
    ELSE MergeLoop(merge_ticket(st, tickets[1], cbt[tickets[1]], done_ids, lookup),
                   Tail(tickets), cbt, done_ids, lookup)

\* Lines 629-641: the loop over commits_by_ticket.items(), in key order.
MergeCommits ==
    /\ pc = "fetched"
    /\ LET st == MergeLoop([worked_on |-> worked_on, done_commits |-> done_commits,
                            plane_active |-> plane_active],
                           SortedStrs(DOMAIN commits_by_ticket), commits_by_ticket,
                           DoneIds(done_issues, review_issues), all_issues_lookup)
       IN  /\ worked_on' = st.worked_on
           /\ done_commits' = st.done_commits
           /\ plane_active' = st.plane_active
    /\ pc' = "merged_commits"
    /\ UNCHANGED <<windowVars, issues, done_issues, review_issues, blocked_issues,
                   backlog_issues, all_issues_lookup, scanVars, commits_by_ticket,
                   orphan_commits, renderVars, pageVars, runVars>>

\* Lines 643-645: the started issues left in plane_active, with no commits.
MergeActive ==
    /\ pc = "merged_commits"
    /\ LET done_ids == DoneIds(done_issues, review_issues)
           added    == DOMAIN plane_active \ done_ids
       IN  worked_on' =
               [t \in DOMAIN worked_on \cup added |->
                   IF t \in added
                   THEN [title |-> plane_active[t].title, url |-> plane_active[t].url,
                         commits |-> <<>>]
                   ELSE worked_on[t]]
    /\ pc' = "merged"
    /\ UNCHANGED <<windowVars, issueVars, scanVars, commits_by_ticket, orphan_commits,
                   done_commits, renderVars, pageVars, runVars>>

(***************************************************************************)
(* get_my_issues (standup.py 92-124): the paging loop and the client-side  *)
(* filter.  A response of the tracker is                                   *)
(*   [kind, has_results, results, next]                                    *)
(* with kind "list" (a bare JSON list, held in results), "dict" (an        *)
(* object; has_results tells whether it has the key "results"; next is     *)
(* "missing", "null", "empty" or "url") or "error" (a non-2xx status, on   *)
(* which raise_for_status raises).  An issue is [id, has_assignees,        *)
(* assignees]; an assignee is [dict, id]: a bare identifier, or an object  *)
(* whose "id" is id ("none": the object has no "id").                      *)
(***************************************************************************)

\* How many pages the tracker serves at most.
MaxPages == 3

Me == "m1"
Other == "m2"

Bare(m) == [dict |-> FALSE, id |-> m]
Obj(m) == [dict |-> TRUE, id |-> m]

\* The issue lists a page may hold; the identifier of an issue is made of the
\* page and its index on the page.
PageItems ==
    [bare_mine_obj_other |-> << <<Bare(Me)>>, <<Obj(Other)>> >>,
     obj_mine            |-> << <<Obj(Me)>> >>,
     second_assignee     |-> << <<Bare(Other)>>, <<Bare(Other), Obj(Me)>> >>,
     no_id               |-> << <<>>, <<Obj("none")>> >>,
     bare_mine           |-> << <<Bare(Me)>> >>,
     none                |-> << >>]

IssuesOn(p, items, with_key) ==
    [k \in 1..Len(items) |->
        [id |-> <<p, k>>, has_assignees |-> with_key \/ items[k] # <<>>,
         assignees |-> items[k]]]

Response(kind, has_results, results, next) ==
    [kind |-> kind, has_results |-> has_results, results |-> results, next |-> next]

\* The responses the tracker may give to the request for page p.
Responses(p) ==
    {Response("list", FALSE, IssuesOn(p, PageItems.bare_mine_obj_other, TRUE), "missing"),
     Response("dict", TRUE, IssuesOn(p, PageItems.obj_mine, TRUE), "url"),
     Response("dict", TRUE, IssuesOn(p, PageItems.second_assignee, TRUE), "url"),
     Response("dict", TRUE, IssuesOn(p, PageItems.no_id, FALSE), "null"),
     Response("dict", TRUE, IssuesOn(p, PageItems.bare_mine, TRUE), "missing"),
     Response("dict", TRUE, IssuesOn(p, PageItems.obj_mine, TRUE), "empty"),
     Response("dict", FALSE, IssuesOn(p, PageItems.none, TRUE), "url"),
     Response("error", FALSE, IssuesOn(p, PageItems.none, TRUE), "missing")}

\* Lines 115-122: the loop over issue.get("assignees", []).
RECURSIVE assigned_among(_, _)
assigned_among(assignees, member) ==
    IF assignees = <<>> THEN FALSE
    ELSE IF assignees[1].dict
    THEN IF assignees[1].id = member THEN TRUE
         ELSE assigned_among(Tail(assignees), member)
    ELSE IF assignees[1].id = member THEN TRUE
    ELSE assigned_among(Tail(assignees), member)

is_assigned_bare_only(issue, member) ==
    \E k \in 1..Len(issue.assignees) :
        ~issue.assignees[k].dict /\ issue.assignees[k].id = member

is_assigned(issue, member) ==
    assigned_among(IF issue.has_assignees THEN issue.assignees ELSE <<>>, member)

\* Line 124: [issue for issue in all_issues if is_assigned(issue)].
RECURSIVE assigned_issues(_, _)
assigned_issues(list, member) ==
    IF list = <<>> THEN <<>>
    ELSE (IF is_assigned(list[1], member) THEN <<list[1]>> ELSE <<>>)
         \o assigned_issues(Tail(list), member)

\* not data.get("next"): the key is missing, or its value is None or "".
NoNext(resp) == resp.next \in {"missing", "null", "empty"}

\* data.get("results", []).
ResultsOf(resp) == IF resp.has_results THEN resp.results ELSE <<>>

\* One turn of `while True` (lines 99-111): the request for `page`, answered
\* by a bare list (line 104-106).
FetchListPage ==
    /\ pc = "paging"
    /\ page <= MaxPages
    /\ server[page].kind = "list"
    /\ requested' = Append(requested, page)
    /\ all_issues' = all_issues \o server[page].results
    /\ pc' = "filter"
    /\ UNCHANGED <<server, member_id, page, returned, windowVars, issueVars, scanVars,
                   mergeVars, renderVars, runVars>>

\* The same turn answered by an object (lines 107-111).
FetchDictPage ==
    /\ pc = "paging"
    /\ page <= MaxPages
    /\ server[page].kind = "dict"
    /\ requested' = Append(requested, page)
    /\ all_issues' = all_issues \o ResultsOf(server[page])
    /\ IF NoNext(server[page])
       THEN pc' = "filter" /\ page' = page
       ELSE pc' = "paging" /\ page' = page + 1
    /\ UNCHANGED <<server, member_id, returned, windowVars, issueVars, scanVars,
                   mergeVars, renderVars, runVars>>

\* The same turn answered by a non-2xx status: plane_get raises (line 70) and
\* get_my_issues ends with the exception.
FetchPageRaises ==
    /\ pc = "paging"
    /\ page <= MaxPages
    /\ server[page].kind = "error"
    /\ requested' = Append(requested, page)
    /\ pc' = "page_error"
    /\ UNCHANGED <<server, member_id, page, all_issues, returned, windowVars,
                   issueVars, scanVars, mergeVars, renderVars, runVars>>

\* Line 124.
ReturnAssigned ==
    /\ pc = "filter"
    /\ returned' = <<assigned_issues(all_issues, member_id)>>
    /\ pc' = "returned"
    /\ UNCHANGED <<server, member_id, page, all_issues, requested, windowVars,
                   issueVars, scanVars, mergeVars, renderVars, runVars>>

InitPagesBlank ==
    /\ server = <<>>
    /\ member_id = Me
    /\ page = 1
    /\ all_issues = <<>>
    /\ requested = <<>>
    /\ returned = <<>>

\* The environment of a run in which nothing is missing: the command line
\* parses, every variable is set, chat delivery is not requested, and the
\* tracker has no issue.
DefaultEnv ==
    [args |-> "ok", plane_key |-> TRUE, workspace |-> TRUE, project_id |-> FALSE,
     slack |-> FALSE, slack_token |-> TRUE, slack_user |-> TRUE,
     tracker |-> [p1 |-> <<>>, p2 |-> <<>>]]

InitRunBlank ==
    /\ env = DefaultEnv
    /\ calls = <<>>
    /\ out = <<>>
    /\ exit_code = <<>>
    /\ todo = <<>>

(***************************************************************************)
(* Specifications                                                          *)
(***************************************************************************)

InitWindowBlank ==
    /\ workday = FirstDay
    /\ date_from = FirstDay
    /\ date_to = FirstDay

InitIssues ==
    /\ issues = <<>>
    /\ done_issues = <<>>
    /\ review_issues = <<>>
    /\ blocked_issues = <<>>
    /\ backlog_issues = <<>>
    /\ plane_active = EmptyDict
    /\ all_issues_lookup = EmptyDict

InitScan ==
    /\ by_ticket = EmptyDict
    /\ orphans = {}
    /\ processed = <<>>

InitMerge ==
    /\ commits_by_ticket = EmptyDict
    /\ orphan_commits = <<>>
    /\ worked_on = EmptyDict
    /\ done_commits = EmptyDict

InitRenderBlank ==
    /\ show_commits = {}
    /\ add_links = FALSE
    /\ report = <<>>
    /\ slack_text = <<>>

\* The run of main from the window to the merged buckets.  today is a Monday
\* or a Tuesday, so that the window is three days or one day long.
Init ==
    /\ pc = "start"
    /\ today \in {d \in Days : d - FirstDay <= 6 /\ Weekday(d) \in {0, 1}}
    /\ arg_date = <<>>
    /\ InitWindowBlank /\ InitIssues /\ InitScan /\ InitMerge /\ InitRenderBlank
    /\ InitPagesBlank /\ InitRunBlank

Next ==
    \/ ResolveWindow
    \/ ClassifyIssue
    \/ FetchCommits
    \/ MergeCommits
    \/ MergeActive

Spec == Init /\ [][Next]_vars

\* The date window alone, for every today and every --date of the calendar.
InitWindow ==
    /\ pc = "start"
    /\ today \in Days
    /\ arg_date \in {<<>>} \cup {<<d>> : d \in Days}
    /\ InitWindowBlank /\ InitIssues /\ InitScan /\ InitMerge /\ InitRenderBlank
    /\ InitPagesBlank /\ InitRunBlank

NextWindow == ResolveWindow

SpecWindow == InitWindow /\ [][NextWindow]_vars

(***************************************************************************)
(* The repository scan of get_github_commits, commit by commit             *)
(***************************************************************************)

\* How many commits a scan hands to process at most.
MaxCommits == 2

\* process(commit) returns: the commit is filed (or dropped as a merge).
ScanProcess ==
    /\ pc = "scan"
    /\ Len(processed) < MaxCommits
    /\ \E commit \in ScanCommits :
        /\ ~ProcessRaises(commit)
        /\ LET st == process(by_ticket, orphans, commit)
           IN  /\ by_ticket' = st.by_ticket
               /\ orphans' = st.orphans
        /\ processed' = Append(processed, commit)
    /\ UNCHANGED <<pc, windowVars, issueVars, mergeVars, renderVars, pageVars, runVars>>

\* process(commit) raises IndexError: nothing is filed, and the loop over this
\* repository's commits ends (except Exception: pass).
ScanProcessRaises ==
    /\ pc = "scan"
    /\ Len(processed) < MaxCommits
    /\ \E commit \in ScanCommits :
        /\ ProcessRaises(commit)
        /\ processed' = Append(processed, commit)
    /\ UNCHANGED <<pc, by_ticket, orphans, windowVars, issueVars, mergeVars,
                   renderVars, pageVars, runVars>>

\* Line 260: the sorted result.
ScanReturn ==
    /\ pc = "scan"
    /\ LET r == ScanResult([by_ticket |-> by_ticket, orphans |-> orphans])
       IN  /\ commits_by_ticket' = r.by_ticket
           /\ orphan_commits' = r.orphans
    /\ pc' = "scanned"
    /\ UNCHANGED <<windowVars, issueVars, scanVars, worked_on, done_commits,
                   renderVars, pageVars, runVars>>

InitScanSpec ==
    /\ pc = "scan"
    /\ today = FirstDay
    /\ arg_date = <<>>
    /\ InitWindowBlank /\ InitIssues /\ InitScan /\ InitMerge /\ InitRenderBlank
    /\ InitPagesBlank /\ InitRunBlank

NextScan ==
    \/ ScanProcess
    \/ ScanProcessRaises
    \/ ScanReturn

SpecScan == InitScanSpec /\ [][NextScan]_vars

(***************************************************************************)
(* Properties of the merged buckets (specification Spec)                   *)
(***************************************************************************)

\* The identifiers of a bucket list.
Ids(bucket) == {e[1] : e \in Range(bucket)}

IssueId(i) == get_issue_identifier(Project, issues[i])
IsBacklogGroup(i) == issues[i].state.group \in {"backlog", "unstarted"}
InWindow(i) ==
    /\ issues[i].updated_date # <<>>
    /\ date_from <= issues[i].updated_date[1]
    /\ issues[i].updated_date[1] <= date_to
NonBacklogBuckets ==
    Ids(done_issues) \cup Ids(review_issues) \cup Ids(blocked_issues)
        \cup DOMAIN worked_on

\* C1 (as the spec states it): after classification and merge, an issue whose
\* state group is backlog or unstarted is in backlog_issues and its identifier
\* is in no other bucket, whatever the commits are.
C1_BacklogOnlyInBacklog ==
    pc = "merged" =>
        \A i \in 1..Len(issues) :
            IsBacklogGroup(i) =>
                /\ IssueId(i) \in Ids(backlog_issues)
                /\ IssueId(i) \notin NonBacklogBuckets

\* C2 (as the spec states it): an issue outside the backlog groups is in some
\* non-backlog bucket if and only if its last-updated date is in the window.
C2_InBucketIffInWindow ==
    pc = "merged" =>
        \A i \in 1..Len(issues) :
            ~IsBacklogGroup(i) =>
                (IssueId(i) \in NonBacklogBuckets <=> InWindow(i))

HasReviewName(i) == Contains(Lower(issues[i].state.name), ReviewWord)
HasBlockedLabel(i) ==
    \E k \in 1..Len(issues[i].label_details) :
        Lower(issues[i].label_details[k]) = BlockedWord

\* C2 (amended): an issue outside the backlog groups is in some non-backlog
\* bucket if and only if either its last-updated date is in the window and it is
\* completed, in a review state, labelled blocked or started, or a commit of
\* the window names its identifier.
C2_InBucketIffClassifiedOrCommitted ==
    pc = "merged" =>
        \A i \in 1..Len(issues) :
            ~IsBacklogGroup(i) =>
                (IssueId(i) \in NonBacklogBuckets <=>
                    \/ /\ InWindow(i)
                       /\ \/ issues[i].state.group \in {"completed", "started"}
                          \/ HasReviewName(i)
                          \/ HasBlockedLabel(i)
                    \/ IssueId(i) \in DOMAIN commits_by_ticket)

\* C2 witness: merged buckets with a cancelled issue updated in the window that
\* is in no bucket.
C2_Witness ==
    /\ pc = "merged"
    /\ \E i \in 1..Len(issues) :
        /\ issues[i].state.group = "cancelled"
        /\ InWindow(i)
        /\ IssueId(i) \notin NonBacklogBuckets

\* How many of the five buckets hold identifier id.
BucketCount(id) ==
    (IF id \in Ids(done_issues) THEN 1 ELSE 0)
        + (IF id \in Ids(review_issues) THEN 1 ELSE 0)
        + (IF id \in Ids(blocked_issues) THEN 1 ELSE 0)
        + (IF id \in Ids(backlog_issues) THEN 1 ELSE 0)
        + (IF id \in DOMAIN worked_on THEN 1 ELSE 0)

\* C3 (as the spec states it): after classification and merge each identifier
\* is in at most one of done, review, blocked, backlog and in-progress.
C3_AtMostOneBucket ==
    pc = "merged" =>
        \A id \in Ids(backlog_issues) \cup NonBacklogBuckets : BucketCount(id) <= 1

\* C4: after merge, each ticket of commits_by_ticket has its commit list either
\* in done_commits (it is a done or in-review identifier, and it is no key of
\* worked_on) or in its worked_on entry (it is no done or in-review identifier
\* and no key of done_commits): exactly one of the two.
C4_CommitsInExactlyOnePlace ==
    pc = "merged" =>
        \A t \in DOMAIN commits_by_ticket :
            LET isDone == t \in DoneIds(done_issues, review_issues)
                a == /\ isDone
                     /\ t \in DOMAIN done_commits
                     /\ done_commits[t] = commits_by_ticket[t]
                     /\ t \notin DOMAIN worked_on
                b == /\ ~isDone
                     /\ t \in DOMAIN worked_on
                     /\ worked_on[t].commits = commits_by_ticket[t]
                     /\ t \notin DOMAIN done_commits
            IN  a # b

\* C4 witness: merged buckets where one ticket's commits went to done_commits
\* and another ticket's commits to worked_on.
C4_Witness ==
    /\ pc = "merged"
    /\ \E t \in DOMAIN commits_by_ticket :
        t \in DOMAIN done_commits /\ done_commits[t] # <<>>
    /\ \E t \in DOMAIN commits_by_ticket :
        t \in DOMAIN worked_on /\ worked_on[t].commits # <<>>

Ticket99 == <<"D", "A", "T", "A", "-", "9", "9">>

\* C8: after merge, every ticket of commits_by_ticket that is no done or
\* in-review identifier has an in-progress entry whose title and URL are those
\* of the assigned issue with that identifier (the started record of
\* plane_active, else the record of all_issues_lookup: both are that issue's
\* title and URL) and, when no assigned issue has that identifier, the title
\* title_from_commits gives and the browse URL of the ticket.
C8_InProgressRecordSource ==
    pc = "merged" =>
        \A t \in DOMAIN commits_by_ticket \ DoneIds(done_issues, review_issues) :
            /\ t \in DOMAIN worked_on
            /\ IF \E i \in 1..Len(issues) : IssueId(i) = t
               THEN \E i \in 1..Len(issues) :
                       /\ IssueId(i) = t
                       /\ worked_on[t].title = issues[i].name
                       /\ worked_on[t].url = build_issue_url(Project.id, issues[i].id)
               ELSE /\ worked_on[t].title =
                           title_from_commits(t, commits_by_ticket[t])
                    /\ worked_on[t].url = build_browse_url(t)

\* C8 witness: the commit "data-99 - add" with no matching issue gave the entry
\* DATA-99 with the cleaned message as title and the browse URL, next to an
\* issue out of the window whose entry comes from all_issues_lookup.
C8_Witness ==
    /\ pc = "merged"
    /\ Ticket99 \in DOMAIN worked_on
    /\ worked_on[Ticket99].title = <<"a", "d", "d">>
    /\ worked_on[Ticket99].url = build_browse_url(Ticket99)
    /\ \E i \in 1..Len(issues) :
        /\ ~InWindow(i)
        /\ ~IsBacklogGroup(i)
        /\ IssueId(i) \in DOMAIN worked_on
        /\ worked_on[IssueId(i)].title = issues[i].name

(***************************************************************************)
(* Properties of the date window (specification SpecWindow)                *)
(***************************************************************************)

\* C5 (as the spec states it): with --date D the window is exactly (D, D), and
\* date_from <= date_to.
C5_OverrideIsSingleDay ==
    (pc = "window" /\ arg_date # <<>>) =>
        /\ date_from = arg_date[1]
        /\ date_to = arg_date[1]
        /\ date_from <= date_to

\* C6: without --date, on a Monday the window runs from today - 3 (Friday) to
\* today - 1 (Sunday), three days; on any other day it is the single day
\* today - 1.
C6_DefaultWindow ==
    (pc = "window" /\ arg_date = <<>>) =>
        IF Weekday(today) = 0
        THEN /\ date_from = today - 3
             /\ date_to = today - 1
             /\ date_to - date_from + 1 = 3
        ELSE /\ date_from = today - 1
             /\ date_to = today - 1

\* C6 witness: a resolved default window on a Monday.
C6_Witness ==
    /\ pc = "window"
    /\ arg_date = <<>>
    /\ Weekday(today) = 0
    /\ date_to - date_from = 2

(***************************************************************************)
(* Properties of the repository scan (specification SpecScan)              *)
(***************************************************************************)

\* The tickets under which a commit line is filed, and those its message names.
FiledUnder(short) == {t \in DOMAIN by_ticket : short \in by_ticket[t]}
TicketsNamed(msg) == {Upper(x) : x \in Range(TICKET_RE_findall(msg))}
ShortOf(commit) == CommitLine(commit.sha, commit.message[1], commit.html_url)

\* The filing the claim describes for a commit, given whether it is a merge.
FiledAsClaimed(commit, is_merge) ==
    LET short == ShortOf(commit)
        named == TicketsNamed(commit.message[1])
    IN  IF is_merge
        THEN FiledUnder(short) = {} /\ short \notin orphans
        ELSE IF named = {}
        THEN short \in orphans /\ FiledUnder(short) = {}
        ELSE FiledUnder(short) = named /\ short \notin orphans

SEC_DONE == <<":white_check_mark:", " ", "Done:">>
SEC_REVIEW == <<":eyes:", " ", "Moved to review:">>
SEC_IN_PROGRESS == <<":arrows_counterclockwise:", " ", "In progress / planned (with ETA):">>
SEC_ORPHAN_COMMITS == <<":ghost:", " ", "Commits without ticket:">>
SEC_BLOCKED == <<":no_entry:", " ", "Blocked:">>
SEC_NEED_TASKS == <<":jigsaw:", " ", "Need tasks (Optional):">>
SEC_BACKLOG == <<":card_index:", " ", "Backlog (assigned, not started):">>
SEC_UNKNOWN_TICKETS == <<":spiral_note_pad:", " ", "Commits linked to unknown ticket:">>

Bullet == <<"*", " ">>                       \* the bullet and a space
EmDash == <<" ", "--", " ">>                 \* space, em dash, space
Arrow == <<" ", " ", "->", " ">>             \* two spaces, the arrow, a space
Newline == <<"\n">>
PlaceholderDash == <<Bullet, <<"--">>>>      \* the bullet and an em dash
PlaceholderNo == <<Bullet, <<"N", "o">>>>
NeedTasksLine == <<Bullet, <<"Need tasks: no">>>>

\* Drop the empty pieces of a line.
RECURSIVE Pieces(_)
Pieces(line) ==
    IF line = <<>> THEN <<>>
    ELSE (IF line[1] = <<>> THEN <<>> ELSE <<line[1]>>) \o Pieces(Tail(line))

\* date.today().strftime("%Y-%m-%d"), for the days of January 2024.
IsoDate(d) ==
    LET day == d - 738885
    IN  <<"2", "0", "2", "4", "-", "0", "1", "-",
          Ascii[Ord["0"] + (day \div 10)], Ascii[Ord["0"] + (day % 10)]>>

\* TICKET_RE.sub("", s), from position i.
RECURSIVE TicketSubFrom(_, _)
TicketSubFrom(s, i) ==
    IF i > Len(s) THEN <<>>
    ELSE LET e == TicketMatchEnd(s, i)
         IN  IF e > 0 THEN TicketSubFrom(s, e)
             ELSE <<s[i]>> \o TicketSubFrom(s, i + 1)

\* TICKET_RE.sub("", msg).lstrip(" -").strip() (the en and em dash of the
\* lstrip set lie outside the ASCII alphabet of the model).
CleanMessage(msg) == Strip(LStrip(TicketSubFrom(msg, 1), {" ", "-"}))

\* The groups of a regular-expression match: sha without its backquotes, the
\* cleaned message, the URL.
ParsedMatch(m) ==
    [sha |-> RStrip(LStrip(m.sha, {Backtick}), {Backtick}),
     msg |-> CleanMessage(m.msg),
     url |-> m.url]

\* _slack_commit_line, and the same parse inside _render_commits_plain:
\* <<>> for an unparseable line, else <<[sha, msg, url]>>.
ParsedMatches(ms) == [k \in 1..Len(ms) |-> ParsedMatch(ms[k])]

ParseCommit(c) == ParsedMatches(COMMIT_RE_match(c))

\* by_msg.setdefault(raw_msg, []).append((sha, commit_url)): by_msg is an
\* OrderedDict, kept as the list of [msg, shas] in first-seen order.
SetDefaultAppend(by_msg, e) ==
    IF \E k \in 1..Len(by_msg) : by_msg[k].msg = e.msg
    THEN [k \in 1..Len(by_msg) |->
            IF by_msg[k].msg = e.msg
            THEN [by_msg[k] EXCEPT !.shas = Append(@, e)]
            ELSE by_msg[k]]
    ELSE Append(by_msg, [msg |-> e.msg, shas |-> <<e>>])

\* One turn of the loop over the commits: an unparseable commit is skipped.
AddParsed(by_msg, parsed) ==
    IF parsed = <<>> THEN by_msg ELSE SetDefaultAppend(by_msg, parsed[1])

RECURSIVE GroupByMessage(_, _)
GroupByMessage(by_msg, commits) ==
    IF commits = <<>> THEN by_msg
    ELSE GroupByMessage(AddParsed(by_msg, ParseCommit(commits[1])), Tail(commits))

\* ", ".join(...) of lists of pieces.
RECURSIVE JoinComma(_)
JoinComma(items) ==
    IF items = <<>> THEN <<>>
    ELSE IF Len(items) = 1 THEN items[1]
    ELSE items[1] \o <<<<",", " ">>>> \o JoinComma(Tail(items))

\* Lines 416-423: one line per message of by_msg.
plain_commit_lines(by_msg, links) ==
    [k \in 1..Len(by_msg) |->
        Pieces(<<Arrow, by_msg[k].msg, <<" ", "(">>>>
               \o JoinComma([j \in 1..Len(by_msg[k].shas) |->
                      IF links
                      THEN <<by_msg[k].shas[j].sha, <<" ">>, by_msg[k].shas[j].url>>
                      ELSE <<by_msg[k].shas[j].sha>>])
               \o <<<<")">>>>)]

\* _render_commits_plain (lines 405-423).
_render_commits_plain(commits, links) ==
    plain_commit_lines(GroupByMessage(<<>>, commits), links)

\* Lines 287-290: one line per message of by_msg.
slack_commit_lines(by_msg) ==
    [k \in 1..Len(by_msg) |->
        Pieces(<<Arrow, by_msg[k].msg, <<" ", "(">>>>
               \o JoinComma([j \in 1..Len(by_msg[k].shas) |->
                      <<<<"<">>, by_msg[k].shas[j].url, <<"|">>,
                        by_msg[k].shas[j].sha, <<">">>>>])
               \o <<<<")">>>>)]

\* _render_commits_slack (lines 278-291).
_render_commits_slack(commits) == slack_commit_lines(GroupByMessage(<<>>, commits))

\* Lines 444-446.
plain_issue_line(ident, title, url, suffix, links) ==
    Pieces(<<Bullet, ident>>
           \o (IF title # <<>> THEN <<EmDash, title>> ELSE <<>>)
           \o <<suffix>>
           \o (IF links /\ url # <<>> THEN <<<<" ">>, url>> ELSE <<>>))

\* Lines 313-316.
slack_issue_line(i, t, u, suffix) ==
    Pieces(<<Bullet>>
           \o (IF u # <<>> THEN <<<<"<">>, u, <<"|">>, i, <<">">>>> ELSE <<i>>)
           \o (IF t # <<>> THEN <<EmDash, t>> ELSE <<>>)
           \o <<suffix>>)

\* Lines 318-321: s.split(" ", 1) and the bold markers around the second part
\* (a header is kept as its words, so the split is at the first " ").
bold(s) ==
    LET sp == {k \in 1..Len(s) : s[k] = " "}
    IN  IF sp = {} THEN <<"*">> \o s \o <<"*">>
        ELSE LET k == CHOOSE x \in sp : \A y \in sp : x <= y
             IN  SubSeq(s, 1, k - 1) \o <<" ", "*">> \o From(s, k + 1) \o <<"*">>

\* dict.get(key, []).
GetOrEmpty(d, k) == IF k \in DOMAIN d THEN d[k] ELSE <<>>

\* Concatenation of a list of lists.
RECURSIVE Flatten(_)
Flatten(ls) == IF ls = <<>> THEN <<>> ELSE ls[1] \o Flatten(Tail(ls))

\* Python's < on the (identifier, title, url) tuples that differ in identifier
\* or title.
TupleLess(a, b) ==
    \/ StrLess(a[1], b[1])
    \/ a[1] = b[1] /\ StrLess(a[2], b[2])

\* sorted() of a list of such tuples (stable insertion sort).
RECURSIVE InsertSorted(_, _)
InsertSorted(sorted, e) ==
    IF sorted = <<>> THEN <<e>>
    ELSE IF TupleLess(e, sorted[1]) THEN <<e>> \o sorted
    ELSE <<sorted[1]>> \o InsertSorted(Tail(sorted), e)

RECURSIVE SortedTuples(_)
SortedTuples(l) ==
    IF l = <<>> THEN <<>>
    ELSE InsertSorted(SortedTuples(SubSeq(l, 1, Len(l) - 1)), l[Len(l)])

\* The lines of a list of issues, each followed by its commits when shown.
plain_issue_lines(issue_list, suffix, links, show, commits_of) ==
    Flatten([k \in 1..Len(issue_list) |->
        <<plain_issue_line(issue_list[k][1], issue_list[k][2], issue_list[k][3],
                           suffix, links)>>
        \o (IF show
            THEN _render_commits_plain(GetOrEmpty(commits_of, issue_list[k][1]), links)
            ELSE <<>>)])

slack_issue_lines_sorted(issue_list, suffix, show, commits_of) ==
    LET l == SortedTuples(issue_list)
    IN  Flatten([k \in 1..Len(l) |->
            <<slack_issue_line(l[k][1], l[k][2], l[k][3], suffix)>>
            \o (IF show
                THEN _render_commits_slack(GetOrEmpty(commits_of, l[k][1]))
                ELSE <<>>)])

slack_issue_lines(issue_list, suffix, show, commits_of) ==
    Flatten([k \in 1..Len(issue_list) |->
        <<slack_issue_line(issue_list[k][1], issue_list[k][2], issue_list[k][3],
                           suffix)>>
        \o (IF show
            THEN _render_commits_slack(GetOrEmpty(commits_of, issue_list[k][1]))
            ELSE <<>>)])

\* Lines 448-455.
plain_done_section(done, links, show, dcommits) ==
    <<<<SEC_DONE>>>>
    \o (IF done # <<>>
        THEN plain_issue_lines(done, <<>>, links, "done" \in show, dcommits)
        ELSE <<PlaceholderDash>>)

\* Lines 457-462.
plain_review_section(review, links, show, dcommits) ==
    IF review # <<>>
    THEN <<<<Newline, SEC_REVIEW>>>>
         \o plain_issue_lines(review, <<>>, links, "done" \in show, dcommits)
    ELSE <<>>

\* Lines 464-471: sorted(worked_on.items()).
plain_in_progress_section(wo, links, show) ==
    <<<<Newline, SEC_IN_PROGRESS>>>>
    \o (IF DOMAIN wo # {}
        THEN LET keys == SortedStrs(DOMAIN wo)
             IN  Flatten([k \in 1..Len(keys) |->
                    <<plain_issue_line(keys[k], wo[keys[k]].title, wo[keys[k]].url,
                                       <<>>, links)>>
                    \o (IF "in_progress" \in show
                        THEN _render_commits_plain(wo[keys[k]].commits, links)
                        ELSE <<>>)])
        ELSE <<PlaceholderDash>>)

\* Lines 473-475.
plain_orphan_section(ocommits, links, show) ==
    IF "orphan" \in show /\ ocommits # <<>>
    THEN <<<<Newline, SEC_ORPHAN_COMMITS>>>> \o _render_commits_plain(ocommits, links)
    ELSE <<>>

\* Lines 477-482.
plain_blocked_section(blocked, links) ==
    <<<<Newline, SEC_BLOCKED>>>>
    \o (IF blocked # <<>>
        THEN plain_issue_lines(blocked, <<" blocked">>, links, FALSE, EmptyDict)
        ELSE <<PlaceholderNo>>)

\* Lines 484-485.
plain_need_tasks_section == <<<<Newline, SEC_NEED_TASKS>>, NeedTasksLine>>

build_report_blocked_first(done, review, wo, blocked, td, links, show, dcommits, ocommits) ==
    <<<<<<"Daily standup", " ", "--", " ">>, IsoDate(td), Newline>>>>
    \o plain_blocked_section(blocked, links)
    \o plain_done_section(done, links, show, dcommits)
    \o plain_review_section(review, links, show, dcommits)
    \o plain_in_progress_section(wo, links, show)
    \o plain_orphan_section(ocommits, links, show)
    \o plain_need_tasks_section

\* build_report (lines 426-487): the list `lines`; td is date.today().
build_report(done, review, wo, blocked, td, links, show, dcommits, ocommits) ==
    <<<<<<"Daily standup", " ", "--", " ">>, IsoDate(td), Newline>>>>
    \o plain_done_section(done, links, show, dcommits)
    \o plain_review_section(review, links, show, dcommits)
    \o plain_in_progress_section(wo, links, show)
    \o plain_orphan_section(ocommits, links, show)
    \o plain_blocked_section(blocked, links)
    \o plain_need_tasks_section

\* Lines 323-330.
slack_done_section(done, show, dcommits) ==
    <<<<bold(SEC_DONE)>>>>
    \o (IF done # <<>>
        THEN slack_issue_lines(done, <<>>, "done" \in show, dcommits)
        ELSE <<PlaceholderDash>>)

\* Lines 332-337.
slack_review_section(review, show, dcommits) ==
    IF review # <<>>
    THEN <<<<Newline, bold(SEC_REVIEW)>>>>
         \o slack_issue_lines(review, <<>>, "done" \in show, dcommits)
    ELSE <<>>

\* Lines 339-346.
slack_in_progress_section(wo, show) ==
    <<<<Newline, bold(SEC_IN_PROGRESS)>>>>
    \o (IF DOMAIN wo # {}
        THEN LET keys == SortedStrs(DOMAIN wo)
             IN  Flatten([k \in 1..Len(keys) |->
                    <<slack_issue_line(keys[k], wo[keys[k]].title, wo[keys[k]].url,
                                       <<>>)>>
                    \o (IF "in_progress" \in show
                        THEN _render_commits_slack(wo[keys[k]].commits)
                        ELSE <<>>)])
        ELSE <<PlaceholderDash>>)

\* Line 350-351: the tickets with commits that are neither in worked_on nor
\* done or in-review identifiers.
UnknownTickets(done, review, wo, cbt) ==
    {t \in DOMAIN cbt : t \notin DOMAIN wo /\ t \notin DoneIds(done, review)}

\* Line 356: f"  {ticket}:{line.lstrip()}" for each rendered commit line.
unknown_ticket_lines(ticket, ls) ==
    [j \in 1..Len(ls) |->
        <<<<" ", " ">>, ticket, <<":">>, LStrip(ls[j][1], Whitespace)>> \o Tail(ls[j])]

\* Lines 354-356: for ticket in sorted(orphan_tickets).
unknown_lines(tickets, cbt) ==
    Flatten([k \in 1..Len(tickets) |->
        unknown_ticket_lines(tickets[k], _render_commits_slack(cbt[tickets[k]]))])

\* Lines 348-356.
slack_unknown_section(done, review, wo, cbt, show) ==
    IF "in_progress" \in show /\ UnknownTickets(done, review, wo, cbt) # {}
    THEN <<<<Newline, bold(SEC_UNKNOWN_TICKETS)>>>>
         \o unknown_lines(SortedStrs(UnknownTickets(done, review, wo, cbt)), cbt)
    ELSE <<>>

\* Lines 358-361.
slack_orphan_section(ocommits, show) ==
    IF "orphan" \in show /\ ocommits # <<>>
    THEN <<<<Newline, bold(SEC_ORPHAN_COMMITS)>>>> \o _render_commits_slack(ocommits)
    ELSE <<>>

\* Lines 363-368.
slack_blocked_section(blocked) ==
    <<<<Newline, bold(SEC_BLOCKED)>>>>
    \o (IF blocked # <<>>
        THEN slack_issue_lines(blocked, <<" ", "--", " ", "blocked">>, FALSE, EmptyDict)
        ELSE <<PlaceholderNo>>)

\* Lines 370-371.
slack_need_tasks_section == <<<<Newline, bold(SEC_NEED_TASKS)>>, NeedTasksLine>>

\* Lines 373-376: sorted(backlog_issues).
slack_backlog_section(backlog) ==
    IF backlog # <<>>
    THEN <<<<<<"\n---\n">>, bold(SEC_BACKLOG)>>>>
         \o slack_issue_lines(SortedTuples(backlog), <<>>, FALSE, EmptyDict)
    ELSE <<>>

\* build_slack_report (lines 294-378): the list `lines`.
build_slack_report(done, review, wo, blocked, backlog, cbt, ocommits, td, show, dcommits) ==
    <<<<<<"*", "Daily standup", " ", "--", " ">>, IsoDate(td), <<"*">>, Newline>>>>
    \o slack_done_section(done, show, dcommits)
    \o slack_review_section(review, show, dcommits)
    \o slack_in_progress_section(wo, show)
    \o slack_unknown_section(done, review, wo, cbt, show)
    \o slack_orphan_section(ocommits, show)
    \o slack_blocked_section(blocked)
    \o slack_need_tasks_section
    \o slack_backlog_section(backlog)

(***************************************************************************)
(* The two renderers on the same reconciled state (specification           *)
(* SpecRender)                                                             *)
(***************************************************************************)

\* How many issues the rendered buckets hold in all.
MaxEntries == 2

\* The k-th issue tuple: odd ones have a title and a URL, even ones neither.
RenderEntry(k) ==
    <<Project.identifier \o <<"-">> \o DigitsOf(k),
      IF k % 2 = 1 THEN <<"T">> \o DigitsOf(k) ELSE <<>>,
      IF k % 2 = 1 THEN build_issue_url(Project.id, IssueIds[k]) ELSE <<>>>>

\* The entries k with where[k] = bucket, by rising or falling k.
RECURSIVE BucketList(_, _, _, _)
BucketList(where, bucket, k, falling) ==
    IF k > MaxEntries THEN <<>>
    ELSE LET rest == BucketList(where, bucket, k + 1, falling)
             here == IF where[k] = bucket THEN <<RenderEntry(k)>> ELSE <<>>
         IN  IF falling THEN rest \o here ELSE here \o rest

\* What a scan of four commits returns: DATA-1 with one commit, DATA-99 with
\* two, and one commit without ticket.
RenderScan ==
    get_github_commits(TRUE,
        <<<<CommitIssueTicket, CommitTitleEmpty, CommitLowerTicket, CommitNoTicket>>>>)

RenderTickets == DOMAIN RenderScan.by_ticket

RenderInfo(t) ==
    LET e == RenderEntry(1)
    IN  IF t = e[1]
        THEN [title |-> e[2], url |-> e[3], commits |-> RenderScan.by_ticket[t]]
        ELSE [title |-> title_from_commits(t, RenderScan.by_ticket[t]),
              url |-> build_browse_url(t), commits |-> RenderScan.by_ticket[t]]

\* The commit inputs: none; all of RenderScan with the first issue's commits
\* in done_commits; the tickets of RenderScan alone.
RenderCommitInputs ==
    {[cbt |-> EmptyDict, dcommits |-> EmptyDict, ocommits |-> <<>>],
     [cbt |-> RenderScan.by_ticket,
      dcommits |-> [t \in {RenderEntry(1)[1]} |-> RenderScan.by_ticket[t]],
      ocommits |-> RenderScan.orphans],
     [cbt |-> RenderScan.by_ticket, dcommits |-> EmptyDict, ocommits |-> <<>>]}

InitRender ==
    /\ pc = "render"
    /\ today = FirstDay
    /\ arg_date = <<>>
    /\ InitWindowBlank /\ InitScan
    /\ InitPagesBlank /\ InitRunBlank
    /\ issues = <<>>
    /\ plane_active = EmptyDict
    /\ all_issues_lookup = EmptyDict
    /\ \E where \in [1..MaxEntries -> {"none", "done", "review", "blocked", "backlog"}] :
       \E falling \in BOOLEAN :
        /\ done_issues = BucketList(where, "done", 1, falling)
        /\ review_issues = BucketList(where, "review", 1, falling)
        /\ blocked_issues = BucketList(where, "blocked", 1, falling)
        /\ backlog_issues = BucketList(where, "backlog", 1, falling)
    /\ \E keys \in SUBSET RenderTickets : worked_on = [t \in keys |-> RenderInfo(t)]
    /\ \E c \in RenderCommitInputs :
        /\ commits_by_ticket = c.cbt
        /\ done_commits = c.dcommits
        /\ orphan_commits = c.ocommits
    /\ show_commits \in SUBSET {"done", "in_progress", "orphan"}
    /\ add_links \in BOOLEAN
    /\ report = <<>>
    /\ slack_text = <<>>

\* Lines 648-652.
BuildReport ==
    /\ pc = "render"
    /\ report' = build_report(done_issues, review_issues, worked_on, blocked_issues,
                              today, add_links, show_commits, done_commits,
                              orphan_commits)
    /\ pc' = "reported"
    /\ UNCHANGED <<windowVars, issueVars, scanVars, mergeVars, show_commits,
                   add_links, slack_text, pageVars, runVars>>

\* Lines 671-675.
BuildSlackReport ==
    /\ pc = "reported"
    /\ slack_text' = build_slack_report(done_issues, review_issues, worked_on,
                                        blocked_issues, backlog_issues,
                                        commits_by_ticket, orphan_commits, today,
                                        show_commits, done_commits)
    /\ pc' = "rendered"
    /\ UNCHANGED <<windowVars, issueVars, scanVars, mergeVars, show_commits,
                   add_links, report, pageVars, runVars>>

NextRender ==
    \/ BuildReport
    \/ BuildSlackReport

SpecRender == InitRender /\ [][NextRender]_vars

\* A chat line with its markup stripped: <url|text> becomes text, the bold
\* markers of a header go.
RECURSIVE StripMarkup(_)
StripMarkup(line) ==
    IF line = <<>> THEN <<>>
    ELSE IF Len(line) >= 5 /\ line[1] = <<"<">> /\ line[3] = <<"|">> /\ line[5] = <<">">>
    THEN <<line[4]>> \o StripMarkup(SubSeq(line, 6, Len(line)))
    ELSE <<line[1]>> \o StripMarkup(Tail(line))

\* An issue bullet line: a bullet followed by an identifier (the placeholder
\* bullets are no issue lines).
IsIssueLine(line) ==
    /\ Len(line) >= 2
    /\ line[1] = Bullet
    /\ line \notin {PlaceholderDash, PlaceholderNo, NeedTasksLine}

\* The identifiers on the issue bullet lines of a plain-text list of lines.
RECURSIVE IdentSeq(_)
IdentSeq(lines) ==
    IF lines = <<>> THEN <<>>
    ELSE (IF IsIssueLine(lines[1]) THEN <<lines[1][2]>> ELSE <<>>)
         \o IdentSeq(Tail(lines))

Stripped(lines) == [k \in 1..Len(lines) |-> StripMarkup(lines[k])]

\* The section headers in their fixed order.
Sections ==
    <<SEC_DONE, SEC_REVIEW, SEC_IN_PROGRESS, SEC_UNKNOWN_TICKETS, SEC_ORPHAN_COMMITS,
      SEC_BLOCKED, SEC_NEED_TASKS, SEC_BACKLOG>>

BoldSections == [k \in 1..Len(Sections) |-> bold(Sections[k])]

\* The rank in Sections of the header a line carries, plain or bold; 0 for a
\* line that is no header.  A header is the last piece of its line, after at
\* most a separator piece.
HeaderRank(line) ==
    IF line = <<>> \/ Len(line) > 2 THEN 0
    ELSE LET h  == line[Len(line)]
             ks == {k \in 1..Len(Sections) : h = Sections[k] \/ h = BoldSections[k]}
         IN  IF ks = {} THEN 0 ELSE CHOOSE k \in ks : TRUE

RECURSIVE HeaderRanks(_)
HeaderRanks(lines) ==
    IF lines = <<>> THEN <<>>
    ELSE LET r == HeaderRank(lines[1])
         IN  (IF r > 0 THEN <<r>> ELSE <<>>) \o HeaderRanks(Tail(lines))

\* The lines of the chat rendering before its Backlog header.
RECURSIVE BeforeBacklog(_)
BeforeBacklog(lines) ==
    IF lines = <<>> \/ HeaderRank(lines[1]) = Len(Sections) THEN <<>>
    ELSE <<lines[1]>> \o BeforeBacklog(Tail(lines))

\* C9 (as the spec states it): the identifiers on the issue bullet lines of the
\* plain rendering are, in order and number, those of the chat rendering with
\* its markup stripped.
C9_SameIssueLines ==
    pc = "rendered" => IdentSeq(report) = IdentSeq(Stripped(slack_text))

\* C9 (amended): they are those of the chat rendering before its Backlog
\* section; the chat rendering has one more issue line per backlog issue, in
\* sorted order, which the plain rendering does not have.
C9_SameIssueLinesBeforeBacklog ==
    pc = "rendered" =>
        /\ IdentSeq(report) = IdentSeq(Stripped(BeforeBacklog(slack_text)))
        /\ IdentSeq(Stripped(slack_text)) =
               IdentSeq(report)
                   \o [k \in 1..Len(backlog_issues) |-> SortedTuples(backlog_issues)[k][1]]

\* C9 witness: both renderings of a state with a backlog issue and at least
\* three issue lines in the plain rendering, one of them a linked identifier.
C9_Witness ==
    /\ pc = "rendered"
    /\ backlog_issues # <<>>
    /\ Len(IdentSeq(report)) >= 3
    /\ \E k \in 1..Len(slack_text) :
        IsIssueLine(slack_text[k]) /\ slack_text[k][2] = <<"<">>

StrictlyRising(ranks) == \A k \in 1..(Len(ranks) - 1) : ranks[k] < ranks[k + 1]

\* Ranks of Done, In Progress, Blocked and Need tasks; of Review, Unknown
\* tickets, Orphan commits and Backlog.
HeaderOrderedAndComplete(lines) ==
    LET ranks == HeaderRanks(lines)
    IN  /\ StrictlyRising(ranks)
        /\ \A k \in 1..Len(Sections) :
            Sections[k] \in {SEC_DONE, SEC_IN_PROGRESS, SEC_BLOCKED, SEC_NEED_TASKS}
                => k \in Range(ranks)
        /\ \A k \in Range(ranks) :
            /\ Sections[k] = SEC_REVIEW => review_issues # <<>>
            /\ Sections[k] = SEC_ORPHAN_COMMITS =>
                   "orphan" \in show_commits /\ orphan_commits # <<>>

\* C10: in both renderings the headers come in the order Done, Review, In
\* Progress, Unknown tickets, Orphan commits, Blocked, Need tasks, Backlog; Done,
\* In Progress, Blocked and Need tasks are always there; Review only with a
\* review issue; Orphan commits only when requested and present; Unknown
\* tickets and Backlog never in the plain rendering.
C10_HeaderOrder ==
    pc = "rendered" =>
        /\ HeaderOrderedAndComplete(report)
        /\ HeaderOrderedAndComplete(slack_text)
        /\ \A k \in Range(HeaderRanks(report)) :
            Sections[k] \notin {SEC_UNKNOWN_TICKETS, SEC_BACKLOG}

\* C10 witness: a chat rendering with all eight headers, next to a plain
\* rendering with the six it can have.
C10_Witness ==
    /\ pc = "rendered"
    /\ Len(HeaderRanks(slack_text)) = Len(Sections)
    /\ Len(HeaderRanks(report)) = Len(Sections) - 2

(***************************************************************************)
(* The unknown tickets of the chat rendering, on the states main produces  *)
(***************************************************************************)

ShowChoices == SUBSET {"done", "in_progress", "orphan"}

\* C14: on every state the merge step of main produces, the unknown tickets
\* that build_slack_report computes (tickets of commits_by_ticket that are no
\* key of worked_on and no done or in-review identifier) are none, and the
\* section of the commits linked to unknown tickets is empty whatever groups
\* of commits are shown.
C14_NoUnknownTickets ==
    pc = "merged" =>
        /\ UnknownTickets(done_issues, review_issues, worked_on, commits_by_ticket) = {}
        /\ \A show \in ShowChoices :
            slack_unknown_section(done_issues, review_issues, worked_on,
                                  commits_by_ticket, show) = <<>>

\* C14 witness: a merged state with commits for a done issue and for a ticket
\* no tracker issue has.
C14_Witness ==
    /\ pc = "merged"
    /\ \E t \in DOMAIN commits_by_ticket : t \in DoneIds(done_issues, review_issues)
    /\ \E t \in DOMAIN commits_by_ticket :
        t \notin DOMAIN all_issues_lookup /\ t \in DOMAIN worked_on

(***************************************************************************)
(* get_my_issues against every tracker of MaxPages pages (specification    *)
(* SpecPagesFair)                                                          *)
(***************************************************************************)

\* The trackers: one response to each of the pages 1..n.
RECURSIVE ServerChoices(_)
ServerChoices(n) ==
    IF n = 0 THEN {<<>>}
    ELSE {Append(sv, r) : sv \in ServerChoices(n - 1), r \in Responses(n)}

InitPages ==
    /\ pc = "paging"
    /\ today = FirstDay
    /\ arg_date = <<>>
    /\ InitWindowBlank /\ InitIssues /\ InitScan /\ InitMerge /\ InitRenderBlank
    /\ InitRunBlank
    /\ server \in ServerChoices(MaxPages)
    /\ member_id = Me
    /\ page = 1
    /\ all_issues = <<>>
    /\ requested = <<>>
    /\ returned = <<>>

NextPages ==
    \/ FetchListPage
    \/ FetchDictPage
    \/ FetchPageRaises
    \/ ReturnAssigned

SpecPages == InitPages /\ [][NextPages]_vars

\* Every call of plane_get returns or raises (requests.get has a timeout), and
\* the loop is sequential code: a turn that can be taken is taken.
SpecPagesFair == SpecPages /\ WF_vars(NextPages)

\* A response that ends the paging: a bare list, or an object whose "next" is
\* missing, null or empty.
IsLastPage(resp) ==
    \/ resp.kind = "list"
    \/ resp.kind = "dict" /\ resp.next \in {"missing", "null", "empty"}

\* The issues of the pages 1..n of the tracker, in order.
RECURSIVE FetchedIssues(_)
FetchedIssues(n) ==
    IF n = 0 THEN <<>>
    ELSE FetchedIssues(n - 1)
         \o (IF server[n].kind = "list" \/ server[n].has_results
             THEN server[n].results ELSE <<>>)

\* The assignee list of the issue contains the member, bare or as an object's id.
AssignedTo(issue, member) ==
    /\ issue.has_assignees
    /\ \E k \in 1..Len(issue.assignees) : issue.assignees[k].id = member

PagesInOrder == requested = [k \in 1..Len(requested) |-> k]

StoppedAtFirstLastPage ==
    LET n == Len(requested)
    IN  /\ \A k \in 1..(n - 1) : server[k].kind = "dict" /\ ~IsLastPage(server[k])
        /\ pc \in {"filter", "returned"} => n >= 1 /\ IsLastPage(server[n])
        /\ pc = "paging" /\ n >= 1 => server[n].kind = "dict" /\ ~IsLastPage(server[n])

ReturnsTheAssigned ==
    pc = "returned" =>
        returned = <<SelectSeq(FetchedIssues(Len(requested)),
                               LAMBDA i : AssignedTo(i, member_id))>>

LastPageAhead == pc = "paging" /\ \E p \in 1..MaxPages : IsLastPage(server[p])

PagingEnded == pc \in {"returned", "page_error"}

\* C13: the pages are requested in the order 1, 2, 3, ...; the paging stops at
\* the first response that is a bare list or has no next indicator; the
\* returned issues are exactly the fetched issues assigned to member_id; and
\* whenever the tracker has such a last page, get_my_issues ends.
C13_PagingStopsAndFilters ==
    /\ [](PagesInOrder /\ StoppedAtFirstLastPage /\ ReturnsTheAssigned)
    /\ (LastPageAhead ~> PagingEnded)

\* C13 witness: a return after three pages, with an issue assigned by bare
\* identifier, one assigned by an object's id as the second assignee, and a
\* fetched issue that is not returned.
C13_Witness ==
    /\ pc = "returned"
    /\ Len(requested) >= 3
    /\ \E k \in 1..Len(returned[1]) : ~returned[1][k].assignees[1].dict
    /\ \E k \in 1..Len(returned[1]) :
        Len(returned[1][k].assignees) = 2 /\ returned[1][k].assignees[2].dict
    /\ Len(returned[1]) < Len(all_issues)

(***************************************************************************)
(* A run of main from the command line to the exit (specification          *)
(* SpecRun).  env is what the run cannot change: whether the command line  *)
(* parses, which variables are set, whether --slack is given, and the      *)
(* issues the tracker holds for each project.  The outcome of every call   *)
(* is chosen when the call is made and is written to `calls`; `out` is     *)
(* what the run has printed, copied and sent so far.                       *)
(***************************************************************************)

P1 == Project
P2 == [id |-> "p2", identifier |-> <<"O", "P", "S">>]

\* The first Tuesday of the calendar, and the Monday its window consists of.
RunToday == CHOOSE d \in Days : Weekday(d) = 1 /\ d - FirstDay <= 6
InWindowDate == <<prev_workday(RunToday)>>
OutOfWindowDate == <<prev_workday(RunToday) - 4>>

TrackerIssue(k, group, state_name, updated, labels) ==
    [id |-> IssueIds[k], sequence_id |-> k, name |-> <<"T">> \o DigitsOf(k),
     state |-> [group |-> group, name |-> state_name],
     updated_date |-> updated, label_details |-> labels]

Doing == <<"D", "o", "i", "n", "g">>
InReview == <<"I", "n", " ", "R", "e", "v", "i", "e", "w">>
BlockedLabel == <<<<"B", "l", "o", "c", "k", "e", "d">>>>

\* The issue lists the tracker may hold for the two projects.
TrackerChoices ==
    [p1 : {<<>>,
           <<TrackerIssue(1, "completed", Doing, InWindowDate, <<>>)>>,
           <<TrackerIssue(1, "started", Doing, InWindowDate, <<>>)>>,
           <<TrackerIssue(1, "backlog", Doing, OutOfWindowDate, <<>>),
             TrackerIssue(2, "started", Doing, InWindowDate, BlockedLabel)>>},
     p2 : {<<>>,
           <<TrackerIssue(3, "started", InReview, InWindowDate, <<>>)>>}]

EnvChoices ==
    [args : {"ok", "usage"}, plane_key : BOOLEAN, workspace : BOOLEAN,
     project_id : BOOLEAN, slack : BOOLEAN, slack_token : BOOLEAN,
     slack_user : BOOLEAN, tracker : TrackerChoices]

\* The repository lists a run's commit scan may meet.
RunRepos == {<<>>, <<<<CommitIssueTicket, CommitNoTicket>>, <<CommitLowerTicket>>>>}

validate_config_key_only(e) == e.plane_key

\* validate_config (lines 494-505).
validate_config(e) == e.plane_key /\ e.workspace

Call(name, arg, result) == [name |-> name, arg |-> arg, result |-> result]

\* sys.exit(code), or the end of the process by an uncaught exception (code 1).
Exit(code) == pc' = "exited" /\ exit_code' = <<code>>

\* Lines 509-548: parse_args ends the process with code 2 on a command line
\* that does not parse.
ParseArgs ==
    /\ pc = "args"
    /\ IF env.args = "ok" THEN pc' = "validate" /\ exit_code' = exit_code ELSE Exit(2)
    /\ UNCHANGED <<windowVars, issueVars, scanVars, mergeVars, renderVars, pageVars,
                   env, calls, out, todo>>

\* Lines 550-551.
ValidateConfig ==
    /\ pc = "validate"
    /\ IF validate_config(env) THEN pc' = "start" /\ exit_code' = exit_code ELSE Exit(1)
    /\ UNCHANGED <<windowVars, issueVars, scanVars, mergeVars, renderVars, pageVars,
                   env, calls, out, todo>>

HttpOutcomes == {"ok", "http_error"}

\* Lines 557-559 and 569-571: get_me.
GetMe ==
    /\ pc = "window"
    /\ \E result \in HttpOutcomes :
        /\ calls' = Append(calls, Call("me", "", result))
        /\ IF result = "ok" THEN pc' = "projects" /\ exit_code' = exit_code ELSE Exit(1)
    /\ UNCHANGED <<windowVars, issueVars, scanVars, mergeVars, renderVars, pageVars,
                   env, out, todo>>

\* Lines 562-571: the project of PLANE_PROJECT_ID, or the project listing.
GetProjects ==
    /\ pc = "projects"
    /\ \E result \in HttpOutcomes :
        /\ calls' = Append(calls,
               Call(IF env.project_id THEN "project" ELSE "projects", "", result))
        /\ IF result = "ok"
           THEN /\ todo' = IF env.project_id THEN <<P1>> ELSE <<P1, P2>>
                /\ pc' = "project"
                /\ exit_code' = exit_code
           ELSE todo' = todo /\ Exit(1)
    /\ UNCHANGED <<windowVars, issueVars, scanVars, mergeVars, renderVars, pageVars,
                   env, out>>

\* Lines 580-589: get_states of the next project; on an HTTP error the project
\* is skipped.
GetStates ==
    /\ pc = "project"
    /\ todo # <<>>
    /\ \E result \in HttpOutcomes :
        /\ calls' = Append(calls, Call("states", todo[1].id, result))
        /\ IF result = "ok"
           THEN pc' = "get_issues" /\ todo' = todo
           ELSE pc' = "project" /\ todo' = Tail(todo)
    /\ UNCHANGED <<windowVars, issueVars, scanVars, mergeVars, renderVars, pageVars,
                   env, out, exit_code>>

GetIssuesWithoutSkip ==
    /\ pc = "get_issues"
    /\ \E result \in HttpOutcomes :
        /\ calls' = Append(calls, Call("issues", todo[1].id, result))
        /\ returned' = <<env.tracker[todo[1].id]>>
        /\ pc' = "classify"
    /\ UNCHANGED <<windowVars, issueVars, scanVars, mergeVars, renderVars, server,
                   member_id, page, all_issues, requested, env, out, exit_code, todo>>

\* Lines 586-589: get_my_issues of the project; `returned` is its result, or
\* what of it the loop of line 591 has still to iterate.
GetIssues ==
    /\ pc = "get_issues"
    /\ \E result \in HttpOutcomes :
        /\ calls' = Append(calls, Call("issues", todo[1].id, result))
        /\ IF result = "ok"
           THEN /\ returned' = <<env.tracker[todo[1].id]>>
                /\ pc' = "classify"
                /\ todo' = todo
           ELSE /\ returned' = returned
                /\ pc' = "project"
                /\ todo' = Tail(todo)
    /\ UNCHANGED <<windowVars, issueVars, scanVars, mergeVars, renderVars, server,
                   member_id, page, all_issues, requested, env, out, exit_code>>

\* One iteration of `for issue in issues` (lines 591-623) for the project at
\* the head of todo.
RunClassifyIssue ==
    /\ pc = "classify"
    /\ returned[1] # <<>>
    /\ LET issue      == returned[1][1]
           title      == issue.name
           identifier == get_issue_identifier(todo[1], issue)
           url        == build_issue_url(todo[1].id, issue.id)
           entry      == <<identifier, title, url>>
           bucket     == classify(issue,
                             updated_in_range(issue.updated_date, date_from, date_to))
       IN  /\ issues' = Append(issues, issue)
           /\ all_issues_lookup' =
                  Put(all_issues_lookup, identifier, [title |-> title, url |-> url])
           /\ backlog_issues' = IF bucket = "backlog"
                                THEN Append(backlog_issues, entry) ELSE backlog_issues
           /\ done_issues' = IF bucket = "done"
                             THEN Append(done_issues, entry) ELSE done_issues
           /\ review_issues' = IF bucket = "review"
                               THEN Append(review_issues, entry) ELSE review_issues
           /\ blocked_issues' = IF bucket = "blocked"
                                THEN Append(blocked_issues, entry) ELSE blocked_issues
           /\ plane_active' = IF bucket = "active"
                              THEN Put(plane_active, identifier,
                                       [title |-> title, url |-> url])
                              ELSE plane_active
    /\ returned' = <<Tail(returned[1])>>
    /\ UNCHANGED <<pc, windowVars, scanVars, mergeVars, renderVars, server, member_id,
                   page, all_issues, requested, runVars>>

\* The end of the loop over the project's issues: on to the next project.
NextProject ==
    /\ pc = "classify"
    /\ returned[1] = <<>>
    /\ returned' = <<>>
    /\ todo' = Tail(todo)
    /\ pc' = "project"
    /\ UNCHANGED <<windowVars, issueVars, scanVars, mergeVars, renderVars, server,
                   member_id, page, all_issues, requested, env, calls, out, exit_code>>

\* Line 627, after the last project; without GITHUB_TOKEN no call is made.
RunFetchCommits ==
    /\ pc = "project"
    /\ todo = <<>>
    /\ \E has_token \in BOOLEAN :
       \E repos \in RunRepos :
        LET r == get_github_commits(has_token, repos)
        IN  /\ commits_by_ticket' = r.by_ticket
            /\ orphan_commits' = r.orphans
            /\ calls' = IF has_token THEN Append(calls, Call("github", "", "ok"))
                        ELSE calls
    /\ pc' = "fetched"
    /\ UNCHANGED <<windowVars, issueVars, scanVars, worked_on, done_commits,
                   renderVars, pageVars, env, out, exit_code, todo>>

\* Lines 648-653: the plain report is built and printed.
PrintReport ==
    /\ pc = "merged"
    /\ report' = build_report(done_issues, review_issues, worked_on, blocked_issues,
                              today, add_links, show_commits, done_commits,
                              orphan_commits)
    /\ out' = Append(out, "report")
    /\ pc' = "printed"
    /\ UNCHANGED <<windowVars, issueVars, scanVars, mergeVars, show_commits,
                   add_links, slack_text, pageVars, env, calls, exit_code, todo>>

\* Lines 656-659: subprocess.run("pbcopy", ..., check=False) runs the command
\* whatever its return code, or raises FileNotFoundError where there is no
\* such command, which ends the process.
CopyToClipboard ==
    /\ pc = "printed"
    /\ \E outcome \in {"ran", "not_found"} :
        IF outcome = "ran"
        THEN /\ out' = out \o <<"pbcopy", "copied">>
             /\ pc' = "copied"
             /\ exit_code' = exit_code
        ELSE /\ out' = Append(out, "pbcopy")
             /\ Exit(1)
    /\ UNCHANGED <<windowVars, issueVars, scanVars, mergeVars, renderVars, pageVars,
                   env, calls, todo>>

\* Lines 662-675: without --slack nothing is sent; a missing token or user id
\* ends the run; else the chat report is built.
SlackCredentials ==
    /\ pc = "copied"
    /\ IF ~env.slack
       THEN pc' = "delivered" /\ exit_code' = exit_code /\ slack_text' = slack_text
       ELSE IF ~env.slack_token \/ ~env.slack_user
       THEN Exit(1) /\ slack_text' = slack_text
       ELSE /\ slack_text' = build_slack_report(done_issues, review_issues, worked_on,
                                 blocked_issues, backlog_issues, commits_by_ticket,
                                 orphan_commits, today, show_commits, done_commits)
            /\ pc' = "post"
            /\ exit_code' = exit_code
    /\ UNCHANGED <<windowVars, issueVars, scanVars, mergeVars, show_commits,
                   add_links, report, pageVars, env, calls, out, todo>>

\* Lines 676-681 and send_to_slack (381-397): a non-2xx status and an answer
\* that is not ok both raise, and the run ends.
SendToSlack ==
    /\ pc = "post"
    /\ \E result \in {"ok", "http_error", "not_ok"} :
        /\ calls' = Append(calls, Call("slack", "", result))
        /\ IF result = "ok"
           THEN out' = Append(out, "sent") /\ pc' = "delivered" /\ exit_code' = exit_code
           ELSE out' = out /\ Exit(1)
    /\ UNCHANGED <<windowVars, issueVars, scanVars, mergeVars, renderVars, pageVars,
                   env, todo>>

\* Lines 683-688: the backlog is printed last, and main returns.
PrintBacklog ==
    /\ pc = "delivered"
    /\ out' = IF backlog_issues # <<>> THEN Append(out, "backlog") ELSE out
    /\ Exit(0)
    /\ UNCHANGED <<windowVars, issueVars, scanVars, mergeVars, renderVars, pageVars,
                   env, calls, todo>>

\* --commits all and --add-links, on the first Tuesday of the calendar.
InitRun ==
    /\ pc = "args"
    /\ today = RunToday
    /\ arg_date = <<>>
    /\ InitWindowBlank /\ InitIssues /\ InitScan /\ InitMerge /\ InitPagesBlank
    /\ show_commits = {"done", "in_progress", "orphan"}
    /\ add_links = TRUE
    /\ report = <<>>
    /\ slack_text = <<>>
    /\ env \in EnvChoices
    /\ calls = <<>>
    /\ out = <<>>
    /\ exit_code = <<>>
    /\ todo = <<>>

NextRun ==
    \/ ParseArgs
    \/ ValidateConfig
    \/ ResolveWindow
    \/ GetMe
    \/ GetProjects
    \/ GetStates
    \/ GetIssues
    \/ RunClassifyIssue
    \/ NextProject
    \/ RunFetchCommits
    \/ MergeCommits
    \/ MergeActive
    \/ PrintReport
    \/ CopyToClipboard
    \/ SlackCredentials
    \/ SendToSlack
    \/ PrintBacklog

SpecRun == InitRun /\ [][NextRun]_vars

Ended == pc = "exited"

Happened(event) == \E k \in 1..Len(out) : out[k] = event

Called(names) == \E k \in 1..Len(calls) : calls[k].name \in names

Failed(names) ==
    \E k \in 1..Len(calls) : calls[k].name \in names /\ calls[k].result # "ok"

\* Chat delivery is requested and the token or the recipient is missing, or
\* the post has failed.
ChatDeliveryFails ==
    /\ env.slack
    /\ ~env.slack_token \/ ~env.slack_user \/ Failed({"slack"})

\* The report was printed and after it the clipboard command was run.
ReportThenClipboard ==
    \E i, j \in 1..Len(out) : i < j /\ out[i] = "report" /\ out[j] = "pbcopy"

TrackerConfigMissing == ~env.plane_key \/ ~env.workspace

Skipped(p) ==
    \E k \in 1..Len(calls) :
        /\ calls[k].name \in {"states", "issues"}
        /\ calls[k].arg = p.id
        /\ calls[k].result = "http_error"

RunProjects == IF env.project_id THEN {P1} ELSE {P1, P2}

ListedIds ==
    {e[1] : e \in Range(done_issues) \cup Range(review_issues)
                  \cup Range(blocked_issues) \cup Range(backlog_issues)}

\* No issue of project p was iterated, is in a bucket list or in a lookup
\* dict, and an In Progress entry with its identifier is not made of it.
NoIssueOfProjectFiled(p) ==
    \A i \in Range(env.tracker[p.id]) :
        LET identifier == get_issue_identifier(p, i)
        IN  /\ i \notin Range(issues)
            /\ identifier \notin ListedIds
            /\ identifier \notin DOMAIN plane_active \cup DOMAIN all_issues_lookup
            /\ identifier \in DOMAIN worked_on =>
                   /\ identifier \in DOMAIN commits_by_ticket
                   /\ worked_on[identifier].url = build_browse_url(identifier)

====
